---- MODULE Spec2Model ----
(***************************************************************************)
(* Model of api/movies.js: the GET /api/movies handler that turns request  *)
(* parameters into a count query and a data query over the movies table.   *)
(*                                                                         *)
(* Strings of the request are sequences of one-character strings, so that  *)
(* trim, toLowerCase, parseInt, the separator-stripping regexp and ILIKE   *)
(* are computed character by character.  request.query is a function whose *)
(* DOMAIN is the set of parameters present in the URL.                     *)
(***************************************************************************)
EXTENDS Integers, Sequences, FiniteSets, TLC

\* ------------------------------------------------------------------ bounds
MaxTotal == 2      \* COUNT(*) results range over 0..MaxTotal
MaxRows == 1       \* the data query returns 0..MaxRows rows
MaxNumLen == 3     \* length of the page / limit texts
MaxDigits == 11    \* longest all-digit search text
MaxLen == 2        \* length of search texts and filenames in SpecSearch

\* --------------------------------------------------------- program constants
DefaultLimit == 50
MaxLimit == 100
IdDigitLimit == 10

\* ------------------------------------------------------------------ strings
Texts(S, n) == UNION {[1..k -> S] : k \in 0..n}

DigitChars == <<"0", "1", "2", "3", "4", "5", "6", "7", "8", "9">>
UpperChars == <<"A", "B", "C", "D", "E", "F", "G", "H", "I", "J", "K", "L", "M",
                "N", "O", "P", "Q", "R", "S", "T", "U", "V", "W", "X", "Y", "Z">>
LowerChars == <<"a", "b", "c", "d", "e", "f", "g", "h", "i", "j", "k", "l", "m",
                "n", "o", "p", "q", "r", "s", "t", "u", "v", "w", "x", "y", "z">>
Whitespace == {" "}
Separators == {".", "_", "-"} \cup Whitespace

IsDigit(c) == \E i \in 1..10 : DigitChars[i] = c
DigitVal(c) == (CHOOSE i \in 1..10 : DigitChars[i] = c) - 1

\* String.prototype.toLowerCase, one character
LowerChar(c) ==
    IF \E i \in 1..26 : UpperChars[i] = c
    THEN LowerChars[CHOOSE i \in 1..26 : UpperChars[i] = c]
    ELSE c

toLowerCase(s) == [i \in 1..Len(s) |-> LowerChar(s[i])]

RECURSIVE TrimStart(_)
TrimStart(s) ==
    IF s = <<>> THEN <<>>
    ELSE IF s[1] \in Whitespace THEN TrimStart(SubSeq(s, 2, Len(s)))
    ELSE s

RECURSIVE TrimEnd(_)
TrimEnd(s) ==
    IF s = <<>> THEN <<>>
    ELSE IF s[Len(s)] \in Whitespace THEN TrimEnd(SubSeq(s, 1, Len(s) - 1))
    ELSE s

\* String.prototype.trim
trim(s) == TrimEnd(TrimStart(s))

\* .replace(/[._\s-]+/g, ''): every run of separators is removed
RECURSIVE StripSeparators(_)
StripSeparators(s) ==
    IF s = <<>> THEN <<>>
    ELSE IF s[1] \in Separators THEN StripSeparators(SubSeq(s, 2, Len(s)))
    ELSE <<s[1]>> \o StripSeparators(SubSeq(s, 2, Len(s)))

\* normalizeSearchTextForComparison: '' for a falsy text, else
\* lower-case, strip separators, trim
normalizeSearchTextForComparison(text) ==
    IF text = <<>> THEN <<>>
    ELSE trim(StripSeparators(toLowerCase(text)))

\* the in-database twin: regexp_replace(lower(filename), '[._\s-]+', '', 'g')
normalizedDbFilename(filename) == StripSeparators(toLowerCase(filename))

\* /^\d+$/.test(s)
IsAllDigits(s) == s # <<>> /\ \A i \in 1..Len(s) : IsDigit(s[i])

RECURSIVE DigitPrefix(_)
DigitPrefix(s) ==
    IF s = <<>> THEN <<>>
    ELSE IF IsDigit(s[1]) THEN <<s[1]>> \o DigitPrefix(SubSeq(s, 2, Len(s)))
    ELSE <<>>

RECURSIVE DigitsValue(_)
DigitsValue(d) ==
    IF d = <<>> THEN 0
    ELSE 10 * DigitsValue(SubSeq(d, 1, Len(d) - 1)) + DigitVal(d[Len(d)])

\* parseInt(s, 10): leading whitespace skipped, optional sign, longest digit
\* prefix; NaN when there is no digit
NaN == [nan |-> TRUE, n |-> 0]
parseInt(s) ==
    LET t == TrimStart(s)
        signed == t # <<>> /\ t[1] \in {"-", "+"}
        u == IF signed THEN SubSeq(t, 2, Len(t)) ELSE t
        d == DigitPrefix(u)
    IN  IF d = <<>> THEN NaN
        ELSE [nan |-> FALSE,
              n |-> IF signed /\ t[1] = "-" THEN 0 - DigitsValue(d) ELSE DigitsValue(d)]

\* p || dflt on a parseInt result: NaN and 0 are falsy
OrDefault(p, dflt) == IF p.nan \/ p.n = 0 THEN dflt ELSE p.n

Max(a, b) == IF a >= b THEN a ELSE b
Min(a, b) == IF a <= b THEN a ELSE b

\* PostgreSQL ILIKE: % matches any run, _ any one character, anything else
\* itself without regard to case
RECURSIVE ILike(_, _)
ILike(s, p) ==
    IF p = <<>> THEN s = <<>>
    ELSE IF p[1] = "%"
         THEN ILike(s, SubSeq(p, 2, Len(p)))
              \/ (s # <<>> /\ ILike(SubSeq(s, 2, Len(s)), p))
    ELSE /\ s # <<>>
         /\ (p[1] = "_" \/ LowerChar(s[1]) = LowerChar(p[1]))
         /\ ILike(SubSeq(s, 2, Len(s)), SubSeq(p, 2, Len(p)))

\* ------------------------------------------------------- request parameters
\* request.query: parameter name -> text, for the parameters present
Has(query, k) == k \in DOMAIN query
\* JS truthiness of query[k]: undefined and '' are falsy
Truthy(query, k) == Has(query, k) /\ query[k] # <<>>
\* destructuring default: applies to an absent parameter only
Param(query, k, dflt) == IF Has(query, k) THEN query[k] ELSE dflt

TextMovies == <<"m", "o", "v", "i", "e", "s">>
TextSeries == <<"s", "e", "r", "i", "e", "s">>
TextAsc == <<"a", "s", "c">>
TextDesc == <<"d", "e", "s", "c">>
KeyId == <<"i", "d">>
KeyFilename == <<"f", "i", "l", "e", "n", "a", "m", "e">>
KeySize == <<"s", "i", "z", "e">>
KeyQuality == <<"q", "u", "a", "l", "i", "t", "y">>
KeyLastUpdated == <<"l", "a", "s", "t", "U", "p", "d", "a", "t", "e", "d">>
KeyConstructor == <<"c", "o", "n", "s", "t", "r", "u", "c", "t", "o", "r">>
KeyToString == <<"t", "o", "S", "t", "r", "i", "n", "g">>

\* the own properties of the mapping object literal
SortMapping ==
    [k \in {KeyId, KeyFilename, KeySize, KeyQuality, KeyLastUpdated} |->
        CASE k = KeyId -> "original_id"
          [] k = KeyFilename -> "lower(filename)"
          [] k = KeySize -> "size_bytes"
          [] k = KeyQuality -> "quality"
          [] k = KeyLastUpdated -> "last_updated_ts"]

\* mapping[key] also finds what the literal inherits from Object.prototype;
\* an inherited function is truthy and is rendered by the template literal
InheritedProperty ==
    [k \in {KeyConstructor, KeyToString} |->
        CASE k = KeyConstructor -> "function Object() { [native code] }"
          [] k = KeyToString -> "function toString() { [native code] }"]

\* mapSortColumn: mapping[key] || 'last_updated_ts'
mapSortColumn(key) ==
    IF key \in DOMAIN SortMapping THEN SortMapping[key]
    ELSE IF key \in DOMAIN InheritedProperty THEN InheritedProperty[key]
    ELSE "last_updated_ts"

\* Math.max(1, parseInt(page, 10) || 1)
currentPageOf(page) == Max(1, OrDefault(parseInt(page), 1))

\* Math.max(1, Math.min(100, parseInt(limit, 10) || 50))
currentLimitOf(limit) == Max(1, Min(MaxLimit, OrDefault(parseInt(limit), DefaultLimit)))

\* faulty variant of offsetOf: the page number is not made zero-based
offsetOfPage(page, limit) == page * limit

\* (currentPage - 1) * currentLimit
offsetOf(page, limit) == (page - 1) * limit

\* sortDir?.toLowerCase() === 'asc' ? 'ASC' : 'DESC'
sortDirectionOf(sortDir) == IF toLowerCase(sortDir) = TextAsc THEN "ASC" ELSE "DESC"

\* ---------------------------------------------------------------- SQL text
\* A bound value: a text or a number
StrV(s) == [type |-> "str", s |-> s, n |-> 0]
NumV(n) == [type |-> "num", s |-> <<>>, n |-> n]

\* A piece of SQL text: a fixed template, the numbers of the $n placeholders
\* written into it, the values spliced into it as literals (the handler
\* splices none) and the identifiers interpolated into it
Frag(text, ph, ident) == [text |-> text, ph |-> ph, inline |-> <<>>, ident |-> ident]

SqlFrom == "FROM movies WHERE 1=1"
SqlOriginalId == " AND original_id = $"
SqlIdOrFilename == " AND (original_id = $ OR regexp_replace(lower(filename), '[._\\s-]+', '', 'g') ILIKE $)"
SqlFilename == " AND regexp_replace(lower(filename), '[._\\s-]+', '', 'g') ILIKE $"
SqlQuality == " AND quality = $"
SqlMovies == " AND is_series = FALSE"
SqlSeries == " AND is_series = TRUE"
SqlCount == "SELECT COUNT(*) "
SqlSelect == "SELECT * "
SqlOrderBy == " ORDER BY"
SqlLimitOffset == " LIMIT $ OFFSET $"
SqlLimitOne == " LIMIT 1"

\* `%${normalizedSearchTerm}%`
Wildcarded(s) == <<"%">> \o s \o <<"%">>

\* the builder's three locals
NewBuilder == [baseQuery |-> <<Frag(SqlFrom, <<>>, <<>>)>>, queryParams |-> <<>>, paramIndex |-> 1]

\* faulty variant of AddCond: paramIndex is not advanced
AddCondRepeat(b, text, n, values) ==
    [baseQuery |-> Append(b.baseQuery, Frag(text, [i \in 1..n |-> b.paramIndex], <<>>)),
     queryParams |-> b.queryParams \o values,
     paramIndex |-> b.paramIndex]

\* baseQuery += `...$${paramIndex++}...` with n placeholders, then
\* queryParams.push(...values)
AddCond(b, text, n, values) ==
    [baseQuery |-> Append(b.baseQuery, Frag(text, [i \in 1..n |-> b.paramIndex + i - 1], <<>>)),
     queryParams |-> b.queryParams \o values,
     paramIndex |-> b.paramIndex + n]

\* faulty variant of isDualIntent: the length test is off by one
isDualIntentShort(searchTerm) == IsAllDigits(searchTerm) /\ Len(searchTerm) < IdDigitLimit - 1

\* isNumericSearch && searchTerm.length < 10

isDualIntent(searchTerm) == IsAllDigits(searchTerm) /\ Len(searchTerm) < IdDigitLimit

\* if (search) { ... }
searchFilter(b, query) ==
    IF ~Truthy(query, "search") THEN b
    ELSE LET searchTerm == trim(query["search"])
             normalizedSearchTerm == normalizeSearchTextForComparison(searchTerm)
         IN  IF isDualIntent(searchTerm)
             THEN AddCond(b, SqlIdOrFilename, 2,
                          <<NumV(parseInt(searchTerm).n), StrV(Wildcarded(normalizedSearchTerm))>>)
             ELSE IF normalizedSearchTerm # <<>>
                  THEN AddCond(b, SqlFilename, 1, <<StrV(Wildcarded(normalizedSearchTerm))>>)
                  ELSE b

\* if (quality) { ... }
qualityFilter(b, query) ==
    IF Truthy(query, "quality")
    THEN AddCond(b, SqlQuality, 1, <<StrV(query["quality"])>>)
    ELSE b

\* if (type === 'movies') ... else if (type === 'series') ...
typeFilter(b, query) ==
    IF Has(query, "type") /\ query["type"] = TextMovies THEN AddCond(b, SqlMovies, 0, <<>>)
    ELSE IF Has(query, "type") /\ query["type"] = TextSeries THEN AddCond(b, SqlSeries, 0, <<>>)
    ELSE b

\* faulty variant of buildFilters: the quality filter is applied to an id lookup too
buildFiltersIdAndQuality(query) ==
    IF Truthy(query, "id")
    THEN qualityFilter(AddCond(NewBuilder, SqlOriginalId, 1, <<StrV(query["id"])>>), query)
    ELSE typeFilter(qualityFilter(searchFilter(NewBuilder, query), query), query)

\* the filtering logic: if (id) { ... } else { search, quality, type }
buildFilters(query) ==
    IF Truthy(query, "id")
    THEN AddCond(NewBuilder, SqlOriginalId, 1, <<StrV(query["id"])>>)
    ELSE typeFilter(qualityFilter(searchFilter(NewBuilder, query), query), query)

\* faulty variant of shortCircuit: a page starting exactly at the end is not out of range
shortCircuitStrict(offset, totalItems) == offset > totalItems /\ totalItems > 0

\* offset >= totalItems && totalItems > 0
shortCircuit(offset, totalItems) == offset >= totalItems /\ totalItems > 0

\* Math.ceil(totalItems / currentLimit)
totalPagesOf(totalItems, currentLimit) == (totalItems + currentLimit - 1) \div currentLimit

\* `SELECT COUNT(*) ${baseQuery}`
countSqlOf(baseQuery) == <<Frag(SqlCount, <<>>, <<>>)>> \o baseQuery

\* dataSql for a filtered request: ORDER BY, then LIMIT $n OFFSET $n+1
orderByClause(sortColumn, sortDirection) ==
    Frag(SqlOrderBy, <<>>,
         <<sortColumn, sortDirection,
           IF sortColumn = "size_bytes" THEN "NULLS LAST" ELSE "",
           "original_id", sortDirection>>)

dataSqlOf(baseQuery, isId, sortColumn, sortDirection, paramIndex) ==
    <<Frag(SqlSelect, <<>>, <<>>)>> \o baseQuery \o
    IF isId THEN <<Frag(SqlLimitOne, <<>>, <<>>)>>
    ELSE <<orderByClause(sortColumn, sortDirection),
           Frag(SqlLimitOffset, <<paramIndex, paramIndex + 1>>, <<>>)>>

\* queryParams.push(currentLimit, offset), for a filtered request only
dataParamsOf(queryParams, isId, currentLimit, offset) ==
    IF isId THEN queryParams ELSE queryParams \o <<NumV(currentLimit), NumV(offset)>>

\* -------------------------------------------------------------------- state
VARIABLES
    pc,             \* where the handler is: idle, entry, connect, count, data, catch, finally, done
    request,        \* [method, query]
    currentPage, currentLimit, offset, sortColumn, sortDirection,
    baseQuery, queryParams, paramIndex,
    client,         \* TRUE once pool.connect() has resolved
    totalItems,
    queries,        \* the client.query calls made, in order: [kind, sql, params, ok]
    events,         \* what the handler did with the pool, the client and the response, in order
    response,       \* what was sent to the caller
    row,            \* SpecSearch: the movies row the WHERE clause is evaluated on
    matched         \* SpecSearch: whether the row satisfies the WHERE clause

locals == <<currentPage, currentLimit, offset, sortColumn, sortDirection,
            baseQuery, queryParams, paramIndex>>
vars == <<pc, request, currentPage, currentLimit, offset, sortColumn, sortDirection,
          baseQuery, queryParams, paramIndex, client, totalItems, queries, events,
          response, row, matched>>

NoRequest == [method |-> "", query |-> <<>>]
NoResponse == [status |-> 0, body |-> "none", items |-> <<>>, totalItems |-> 0, page |-> 0,
               totalPages |-> 0, limit |-> 0, error |-> "", details |-> ""]
NoRow == [original_id |-> 0, filename |-> <<>>, quality |-> <<>>, is_series |-> FALSE]

ErrorMessage == "Failed to fetch movie data from database."

\* the 200 envelope (filters and sorting echo the request and are left out)
Envelope(items, total, page, pages, limit) ==
    [status |-> 200, body |-> "envelope", items |-> items, totalItems |-> total, page |-> page,
     totalPages |-> pages, limit |-> limit, error |-> "", details |-> ""]

IsIdLookup == Truthy(request.query, "id")

\* ------------------------------------------------------------------ inputs
Opt(k, V) == {<<>>} \cup {k :> v : v \in V}

DigitRun(n) == [i \in 1..n |-> "7"]
NumTexts == Texts({"-", "0", "1"}, MaxNumLen) \cup {<<"2">>}
SearchTexts ==
    {<<>>, <<" ">>, <<".">>, <<"A">>, <<"A", ".", "b">>, <<" ", "7", " ">>, <<"7", "A">>,
     <<"0", "0", "7">>, <<"7", " ", "7">>, <<"-", "7">>}
    \cup {DigitRun(n) : n \in 1..MaxDigits}
IdTexts == {<<>>, <<"4", "2">>}
QualityTexts == {<<>>, <<"1", "0", "8", "0", "p">>}
TypeTexts == {TextMovies, TextSeries, <<"t", "v">>}
SortTexts == {KeyId, KeyFilename, KeySize, KeyQuality, KeyLastUpdated, KeyConstructor,
              KeyToString, <<"I", "D">>, <<>>}
SortDirTexts == {TextAsc, <<"A", "S", "C">>, TextDesc, <<>>}

FilterQueries ==
    {a @@ b @@ c @@ d : a \in Opt("id", IdTexts), b \in Opt("search", SearchTexts),
                        c \in Opt("quality", QualityTexts), d \in Opt("type", TypeTexts)}
PageQueries ==
    {a @@ b : a \in Opt("page", NumTexts), b \in Opt("limit", {<<"1">>, <<"2">>})}
LimitQueries ==
    {a @@ b : a \in Opt("limit", NumTexts), b \in Opt("page", {<<"2">>})}
SortQueries ==
    {a @@ b @@ c : a \in Opt("sort", SortTexts), b \in Opt("sortDir", SortDirTexts),
                   c \in Opt("id", {<<"4", "2">>})}
ExampleQueries ==
    {a @@ ("type" :> TextSeries) @@ ("quality" :> <<"1", "0", "8", "0", "p">>)
       @@ ("page" :> <<"2">>) @@ ("limit" :> <<"1", "0">>) : a \in Opt("search", {<<"7">>})}
Queries == FilterQueries \cup PageQueries \cup LimitQueries \cup SortQueries \cup ExampleQueries

\* ----------------------------------------------------------------- actions
Init ==
    /\ pc = "idle"
    /\ request = NoRequest
    /\ currentPage = 0 /\ currentLimit = 0 /\ offset = 0
    /\ sortColumn = "" /\ sortDirection = ""
    /\ baseQuery = <<>> /\ queryParams = <<>> /\ paramIndex = 0
    /\ client = FALSE
    /\ totalItems = 0
    /\ queries = <<>>
    /\ events = <<>>
    /\ response = NoResponse
    /\ row = NoRow
    /\ matched = "unset"

\* a request arrives while no other is being handled
Arrive(method, query) ==
    /\ pc = "idle"
    /\ pc' = "entry"
    /\ request' = [method |-> method, query |-> query]
    /\ UNCHANGED <<locals, client, totalItems, queries, events, response, row, matched>>

Receive ==
    \/ \E query \in Queries : Arrive("GET", query)
    \/ \E method \in {"OPTIONS", "POST"} : Arrive(method, <<>>)

\* if (request.method === 'OPTIONS') return response.status(200).end()
Preflight ==
    /\ pc = "entry"
    /\ request.method = "OPTIONS"
    /\ response' = [NoResponse EXCEPT !.status = 200, !.body = "end"]
    /\ events' = Append(events, "respond_200")
    /\ pc' = "done"
    /\ UNCHANGED <<request, locals, client, totalItems, queries, row, matched>>

\* if (request.method !== 'GET') return response.status(405).json(...)
MethodNotAllowed ==
    /\ pc = "entry"
    /\ request.method \notin {"OPTIONS", "GET"}
    /\ response' = [NoResponse EXCEPT !.status = 405, !.body = "error",
                                      !.error = "Method Not Allowed"]
    /\ events' = Append(events, "respond_405")
    /\ pc' = "done"
    /\ UNCHANGED <<request, locals, client, totalItems, queries, row, matched>>

\* the synchronous part of the try block: parameters and the WHERE clause
ParseAndBuild ==
    /\ pc = "entry"
    /\ request.method = "GET"
    /\ LET query == request.query
           page == currentPageOf(Param(query, "page", <<"1">>))
           limit == currentLimitOf(Param(query, "limit", <<"5", "0">>))
           b == buildFilters(query)
       IN  /\ currentPage' = page
           /\ currentLimit' = limit
           /\ offset' = offsetOf(page, limit)
           /\ sortColumn' = mapSortColumn(Param(query, "sort", KeyLastUpdated))
           /\ sortDirection' = sortDirectionOf(Param(query, "sortDir", TextDesc))
           /\ baseQuery' = b.baseQuery
           /\ queryParams' = b.queryParams
           /\ paramIndex' = b.paramIndex
    /\ pc' = "connect"
    /\ UNCHANGED <<request, client, totalItems, queries, events, response, row, matched>>

\* client = await pool.connect() resolves; let totalItems = 1
ConnectOk ==
    /\ pc = "connect"
    /\ client' = TRUE
    /\ totalItems' = 1
    /\ events' = Append(events, "connect_ok")
    /\ pc' = IF IsIdLookup THEN "data" ELSE "count"
    /\ UNCHANGED <<request, locals, queries, response, row, matched>>

\* pool.connect() rejects
ConnectFail ==
    /\ pc = "connect"
    /\ events' = Append(events, "connect_fail")
    /\ pc' = "catch"
    /\ UNCHANGED <<request, locals, client, totalItems, queries, response, row, matched>>

\* the count query resolves with n; an out-of-range page is answered at once
CountOk ==
    /\ pc = "count"
    /\ \E n \in 0..MaxTotal :
        /\ queries' = Append(queries, [kind |-> "count", sql |-> countSqlOf(baseQuery),
                                       params |-> queryParams, ok |-> TRUE])
        /\ totalItems' = n
        /\ IF shortCircuit(offset, n)
           THEN /\ response' = Envelope(<<>>, n, currentPage,
                                        totalPagesOf(n, currentLimit), currentLimit)
                /\ events' = events \o <<"count_ok", "respond_200">>
                /\ pc' = "finally"
           ELSE /\ response' = response
                /\ events' = Append(events, "count_ok")
                /\ pc' = "data"
    /\ UNCHANGED <<request, locals, client, row, matched>>

\* the count query rejects
CountFail ==
    /\ pc = "count"
    /\ queries' = Append(queries, [kind |-> "count", sql |-> countSqlOf(baseQuery),
                                   params |-> queryParams, ok |-> FALSE])
    /\ events' = Append(events, "count_fail")
    /\ pc' = "catch"
    /\ UNCHANGED <<request, locals, client, totalItems, response, row, matched>>

\* dataSql and the final queryParams, then client.query(dataSql, queryParams)
IssueData(ok) ==
    /\ queryParams' = dataParamsOf(queryParams, IsIdLookup, currentLimit, offset)
    /\ paramIndex' = IF IsIdLookup THEN paramIndex ELSE paramIndex + 2
    /\ queries' = Append(queries,
          [kind |-> "data",
           sql |-> dataSqlOf(baseQuery, IsIdLookup, sortColumn, sortDirection, paramIndex),
           params |-> queryParams', ok |-> ok])
    /\ UNCHANGED <<currentPage, currentLimit, offset, sortColumn, sortDirection, baseQuery>>

\* the data query resolves with k rows, no more than its LIMIT; the envelope is sent
DataOk ==
    /\ pc = "data"
    /\ IssueData(TRUE)
    /\ \E k \in 0..Min(MaxRows, IF IsIdLookup THEN 1 ELSE currentLimit) :
        response' = Envelope([i \in 1..k |-> "row"], totalItems, currentPage,
                             IF IsIdLookup THEN 1 ELSE totalPagesOf(totalItems, currentLimit),
                             currentLimit)
    /\ events' = events \o <<"data_ok", "respond_200">>
    /\ pc' = "finally"
    /\ UNCHANGED <<request, client, totalItems, row, matched>>

\* the data query rejects
DataFail ==
    /\ pc = "data"
    /\ IssueData(FALSE)
    /\ events' = Append(events, "data_fail")
    /\ pc' = "catch"
    /\ UNCHANGED <<request, client, totalItems, response, row, matched>>

\* faulty variant of Catch: the error is swallowed and an empty page is sent
CatchAsEmptyPage ==
    /\ pc = "catch"
    /\ response' = Envelope(<<>>, 0, currentPage, 0, currentLimit)
    /\ events' = Append(events, "respond_200")
    /\ pc' = "finally"
    /\ UNCHANGED <<request, locals, client, totalItems, queries, row, matched>>

\* catch (error): the 500 body; details depends on NODE_ENV
Catch ==
    /\ pc = "catch"
    /\ \E development \in BOOLEAN :
        response' = [NoResponse EXCEPT !.status = 500, !.body = "error",
                        !.error = ErrorMessage,
                        !.details = IF development THEN "error.message"
                                    ELSE "Internal Server Error. Check API logs."]
    /\ events' = Append(events, "respond_500")
    /\ pc' = "finally"
    /\ UNCHANGED <<request, locals, client, totalItems, queries, row, matched>>

\* faulty variant of Finally: the client is released on the success path only
FinallyOnSuccessOnly ==
    /\ pc = "finally"
    /\ events' = IF client /\ response.status = 200 THEN Append(events, "release") ELSE events
    /\ pc' = "done"
    /\ UNCHANGED <<request, locals, client, totalItems, queries, response, row, matched>>

\* finally { if (client) client.release() }
Finally ==
    /\ pc = "finally"
    /\ events' = IF client THEN Append(events, "release") ELSE events
    /\ pc' = "done"
    /\ UNCHANGED <<request, locals, client, totalItems, queries, response, row, matched>>

\* the handler has returned: its locals are gone, the next request starts afresh
Return ==
    /\ pc = "done"
    /\ pc' = "idle"
    /\ request' = NoRequest
    /\ currentPage' = 0 /\ currentLimit' = 0 /\ offset' = 0
    /\ sortColumn' = "" /\ sortDirection' = ""
    /\ baseQuery' = <<>> /\ queryParams' = <<>> /\ paramIndex' = 0
    /\ client' = FALSE
    /\ totalItems' = 0
    /\ queries' = <<>>
    /\ events' = <<>>
    /\ response' = NoResponse
    /\ UNCHANGED <<row, matched>>

Next ==
    \/ Receive
    \/ Preflight
    \/ MethodNotAllowed
    \/ ParseAndBuild
    \/ ConnectOk
    \/ ConnectFail
    \/ CountOk
    \/ CountFail
    \/ DataOk
    \/ DataFail
    \/ Catch
    \/ Finally
    \/ Return

Spec == Init /\ [][Next]_vars

\* ------------------------------------------- the WHERE clause on one row
\* original_id = $n: the bound value is a number, or a text PostgreSQL casts
IdEquals(id, v) ==
    IF v.type = "num" THEN id = v.n
    ELSE ~parseInt(v.s).nan /\ IsAllDigits(v.s) /\ parseInt(v.s).n = id

\* one AND-ed condition of baseQuery, with its bound values
CondHolds(f, params, r) ==
    CASE f.text = SqlOriginalId -> IdEquals(r.original_id, params[f.ph[1]])
      [] f.text = SqlIdOrFilename ->
            \/ IdEquals(r.original_id, params[f.ph[1]])
            \/ ILike(normalizedDbFilename(r.filename), params[f.ph[2]].s)
      [] f.text = SqlFilename -> ILike(normalizedDbFilename(r.filename), params[f.ph[1]].s)
      [] f.text = SqlQuality -> r.quality = params[f.ph[1]].s
      [] f.text = SqlMovies -> ~r.is_series
      [] f.text = SqlSeries -> r.is_series
      [] OTHER -> TRUE

Satisfies(r, where, params) == \A i \in 1..Len(where) : CondHolds(where[i], params, r)

\* ---------------------------------------------------------------- SpecSearch
\* The search predicate against stored filenames: every short search text
\* against every short filename.
SearchAlphabet == {"a", "A", ".", "%", "7"}
Rows == {[original_id |-> 7, filename |-> f, quality |-> <<>>, is_series |-> FALSE] :
            f \in Texts(SearchAlphabet, MaxLen)}

InitSearch ==
    /\ pc = "idle"
    /\ request = NoRequest
    /\ currentPage = 0 /\ currentLimit = 0 /\ offset = 0
    /\ sortColumn = "" /\ sortDirection = ""
    /\ baseQuery = <<>> /\ queryParams = <<>> /\ paramIndex = 0
    /\ client = FALSE
    /\ totalItems = 0
    /\ queries = <<>>
    /\ events = <<>>
    /\ response = NoResponse
    /\ row \in Rows
    /\ matched = "unset"

ReceiveSearch == \E s \in Texts(SearchAlphabet, MaxLen) : Arrive("GET", "search" :> s)

\* the database evaluates the WHERE clause of the built query on the row
EvaluateRow ==
    /\ pc = "connect"
    /\ matched' = IF Satisfies(row, baseQuery, queryParams) THEN "yes" ELSE "no"
    /\ pc' = "done"
    /\ UNCHANGED <<request, locals, client, totalItems, queries, events, response, row>>

NextSearch ==
    \/ ReceiveSearch
    \/ ParseAndBuild
    \/ EvaluateRow

SpecSearch == InitSearch /\ [][NextSearch]_vars

\* ------------------------------------------------------------------ claims
Range(seq) == {seq[i] : i \in 1..Len(seq)}
Count(seq, e) == Cardinality({i \in 1..Len(seq) : seq[i] = e})
Kinds(qs) == [i \in 1..Len(qs) |-> qs[i].kind]
QueryEvents == {"count_ok", "count_fail", "data_ok", "data_fail"}
FailEvents == {"connect_fail", "count_fail", "data_fail"}
Failed == Range(events) \cap FailEvents # {}

\* the handler has parsed the parameters and built the WHERE clause
Built == request.method = "GET" /\ pc \in {"connect", "count", "data", "catch", "finally", "done"}

\* the smallest k with k * d >= n
CeilDiv(n, d) == CHOOSE k \in 0..n : k * d >= n /\ (k = 0 \/ (k - 1) * d < n)

\* C1: a request that acquired a connection releases it exactly once, as the
\* last thing it does (after its last query and its response), whether it
\* ends with a 200, the out-of-range early return, or a failed count or data
\* query; a request that acquired none releases nothing.
C1_ReleasedExactlyOnce ==
    /\ Count(events, "release") <= 1
    /\ \A i \in 1..Len(events) :
          events[i] = "release" => i = Len(events) /\ "connect_ok" \in Range(events)
    /\ Len(queries) = Cardinality({i \in 1..Len(events) : events[i] \in QueryEvents})
    /\ pc = "done" /\ "connect_ok" \in Range(events) => Count(events, "release") = 1
    /\ "connect_ok" \notin Range(events) => Count(events, "release") = 0
    /\ client <=> "connect_ok" \in Range(events)

\* C1 witness: a request whose data query threw has returned, its connection released
C1_Witness ==
    /\ pc = "done"
    /\ "data_fail" \in Range(events)
    /\ events[Len(events)] = "release"

\* C2 as stated: whenever the id parameter is present, the predicate is the
\* single condition original_id = $1 bound to the id, and nothing else.
C2_IdPresentExact ==
    Built /\ Has(request.query, "id") =>
        /\ baseQuery = <<Frag(SqlFrom, <<>>, <<>>), Frag(SqlOriginalId, <<1>>, <<>>)>>
        /\ queryParams = <<StrV(request.query["id"])>>

\* C2 amended: whenever the id parameter is present and not empty, the
\* predicate is the single condition original_id = $1 bound to the id, with
\* no search, quality or type condition, whatever those parameters carry.
C2_IdNonEmptyExact ==
    Built /\ Has(request.query, "id") /\ request.query["id"] # <<>> =>
        /\ baseQuery = <<Frag(SqlFrom, <<>>, <<>>), Frag(SqlOriginalId, <<1>>, <<>>)>>
        /\ queryParams = <<StrV(request.query["id"])>>
        /\ \A i \in 1..Len(queries) : queries[i].params = <<StrV(request.query["id"])>>

\* C2 witness: an id lookup that also carries a search, a quality and a type
C2_Witness ==
    /\ Built
    /\ Truthy(request.query, "id")
    /\ Truthy(request.query, "search")
    /\ Truthy(request.query, "quality")
    /\ Has(request.query, "type") /\ request.query["type"] = TextSeries
    /\ Len(baseQuery) = 2

\* C3: the effective limit is within 1..100; a limit that parses to more
\* than 100 gives 100, one that parses to less than 1 gives 1, one in
\* between is kept, and only a limit that fails to parse gives the default 50.
C3_LimitClamped ==
    Built =>
        LET p == parseInt(Param(request.query, "limit", <<"5", "0">>))
        IN  /\ currentLimit \in 1..MaxLimit
            /\ p.nan => currentLimit = DefaultLimit
            /\ ~p.nan /\ p.n > MaxLimit => currentLimit = MaxLimit
            /\ ~p.nan /\ p.n < 1 => currentLimit = 1
            /\ ~p.nan /\ p.n \in 1..MaxLimit => currentLimit = p.n

\* C4: in a request without id whose count is positive and not beyond the
\* offset, no data query is issued and the 200 envelope carries no items,
\* the counted total and ceil(total / limit) pages; any other request
\* without id that answers 200 has issued the count query and then the data
\* query, once each.
C4_ShortCircuit ==
    request.method = "GET" /\ ~IsIdLookup /\ "count_ok" \in Range(events) =>
        IF totalItems > 0 /\ (currentPage - 1) * currentLimit >= totalItems
        THEN /\ Kinds(queries) = <<"count">>
             /\ response.status = 200 /\ response.body = "envelope"
             /\ response.items = <<>>
             /\ response.totalItems = totalItems
             /\ response.totalPages = CeilDiv(totalItems, currentLimit)
        ELSE response.status = 200 => Kinds(queries) = <<"count", "data">>

\* C4 witness: the page starts exactly at the end of the counted rows
C4_Witness ==
    /\ pc = "done"
    /\ request.method = "GET" /\ ~IsIdLookup
    /\ totalItems > 0 /\ offset = totalItems
    /\ response.status = 200

\* C5: once the connection attempt, the count query or the data query has
\* failed, nothing but the 500 response and the release follows: no further
\* query, no second attempt, and the response is the 500 error body without
\* items; a 200 envelope is sent only when every query the request needed
\* was issued and succeeded.
C5_FailureFailsRequest ==
    /\ \A i \in 1..Len(events) :
          events[i] \in FailEvents =>
              \A j \in (i + 1)..Len(events) : events[j] \in {"respond_500", "release"}
    /\ \A i \in 1..Len(queries) : ~queries[i].ok => i = Len(queries)
    /\ Count(events, "connect_ok") + Count(events, "connect_fail") <= 1
    /\ Count(Kinds(queries), "count") <= 1 /\ Count(Kinds(queries), "data") <= 1
    /\ Failed /\ pc \in {"finally", "done"} =>
          /\ response.status = 500 /\ response.body = "error"
          /\ response.error = ErrorMessage
          /\ response.details \in {"error.message", "Internal Server Error. Check API logs."}
          /\ response.items = <<>>
    /\ Failed => response.status \in {0, 500}
    /\ response.body = "envelope" =>
          /\ ~Failed
          /\ \A i \in 1..Len(queries) : queries[i].ok
          /\ Kinds(queries) = IF IsIdLookup THEN <<"data">>
                              ELSE IF totalItems > 0 /\ offset >= totalItems THEN <<"count">>
                              ELSE <<"count", "data">>

\* C5 witness: the count query failed and the request ended with the 500 body
C5_Witness ==
    /\ pc = "done"
    /\ "count_fail" \in Range(events)
    /\ response.status = 500

RecognizedSortKeys == {KeyId, KeyFilename, KeySize, KeyQuality, KeyLastUpdated}
SortColumns == {"original_id", "lower(filename)", "size_bytes", "quality", "last_updated_ts"}

\* C6: a sort parameter that is none of id, filename, size, quality,
\* lastUpdated (absent included) resolves to last_updated_ts, so the column
\* written after ORDER BY is always one of the five known columns.
C6_SortFallback ==
    Built =>
        /\ Param(request.query, "sort", KeyLastUpdated) \notin RecognizedSortKeys
              => sortColumn = "last_updated_ts"
        /\ sortColumn \in SortColumns
        /\ \A i \in 1..Len(queries) : \A j \in 1..Len(queries[i].sql) :
              queries[i].sql[j].text = SqlOrderBy => queries[i].sql[j].ident[1] \in SortColumns

\* the search conditions of the built predicate
SearchConds == SelectSeq(baseQuery, LAMBDA f : f.text \in {SqlIdOrFilename, SqlFilename})
OnlyDigits(s) == \A i \in 1..Len(s) : s[i] \in Range(DigitChars)
DualCond(t) ==
    /\ SearchConds = <<Frag(SqlIdOrFilename, <<1, 2>>, <<>>)>>
    /\ queryParams[1] = NumV(DigitsValue(t))
    /\ queryParams[2] = StrV(<<"%">> \o normalizeSearchTextForComparison(t) \o <<"%">>)
PlainCond(t) ==
    /\ SearchConds = <<Frag(SqlFilename, <<1>>, <<>>)>>
    /\ queryParams[1] = StrV(<<"%">> \o normalizeSearchTextForComparison(t) \o <<"%">>)

\* C7 as stated: with a non-empty search and no id, the predicate is the
\* disjunction (original_id = n OR normalized filename ILIKE %s%) when the
\* trimmed search is all digits and shorter than 10, and in every other case
\* the plain normalized-filename match.
C7_DualIntentIff ==
    Built /\ ~IsIdLookup /\ Truthy(request.query, "search") =>
        LET t == trim(request.query["search"])
        IN  IF t # <<>> /\ OnlyDigits(t) /\ Len(t) < IdDigitLimit
            THEN DualCond(t)
            ELSE PlainCond(t)

\* C7 amended: with a non-empty search and no id, the predicate is the
\* disjunction when the trimmed search is all digits and shorter than 10;
\* otherwise it is the plain normalized-filename match when the normalized
\* search is not empty, and there is no search condition at all when the
\* normalized search is empty (a search of separators and spaces only).
C7_DualIntentOrPlainOrNone ==
    Built /\ ~IsIdLookup /\ Truthy(request.query, "search") =>
        LET t == trim(request.query["search"])
        IN  IF t # <<>> /\ OnlyDigits(t) /\ Len(t) < IdDigitLimit
            THEN DualCond(t)
            ELSE IF normalizeSearchTextForComparison(t) # <<>>
                 THEN PlainCond(t)
                 ELSE SearchConds = <<>>

\* C7 witness: an all-digit search of exactly 10 characters got the plain match
C7_Witness ==
    /\ Built /\ ~IsIdLookup
    /\ Has(request.query, "search")
    /\ request.query["search"] = [i \in 1..IdDigitLimit |-> "7"]
    /\ Len(SearchConds) = 1 /\ SearchConds[1].text = SqlFilename

Contains(t, s) == \E i \in 0..(Len(t) - Len(s)) : SubSeq(t, i + 1, i + Len(s)) = s

\* C8: for a search that is not all digits and whose normalized form s is
\* not empty, the row satisfies the predicate exactly when its normalized
\* filename contains s as a contiguous substring.
C8_SubstringMatch ==
    matched # "unset" /\ Has(request.query, "search") =>
        LET t == trim(request.query["search"])
            s == normalizeSearchTextForComparison(request.query["search"])
        IN  ~(t # <<>> /\ OnlyDigits(t)) /\ s # <<>> =>
                (matched = "yes" <=> Contains(normalizeSearchTextForComparison(row.filename), s))

ExampleQuery ==
    ("type" :> TextSeries) @@ ("quality" :> <<"1", "0", "8", "0", "p">>)
        @@ ("page" :> <<"2">>) @@ ("limit" :> <<"1", "0">>)

\* C9: when a request without id issues its data query, that query has the
\* WHERE clause of the count query and the count query's values in the same
\* positions, followed by LIMIT = the effective limit and OFFSET =
\* (effective page - 1) * effective limit, with the page at least 1 and the
\* offset never negative; type=series&quality=1080p&page=2&limit=10 filters
\* both on quality = $1 AND is_series = TRUE with LIMIT 10 OFFSET 10.
C9_SamePredicateAndPaging ==
    request.method = "GET" /\ ~IsIdLookup =>
        \A i \in 1..Len(queries) :
            queries[i].kind = "data" =>
                /\ i = 2 /\ queries[1].kind = "count"
                /\ LET c == queries[1]
                       d == queries[2]
                       n == Len(c.sql)
                       k == Len(c.params)
                       page == parseInt(Param(request.query, "page", <<"1">>))
                   IN  /\ Len(d.sql) = n + 2
                       /\ SubSeq(d.sql, 2, n) = SubSeq(c.sql, 2, n)
                       /\ d.sql[n + 1].text = SqlOrderBy
                       /\ d.sql[n + 2] = Frag(SqlLimitOffset, <<k + 1, k + 2>>, <<>>)
                       /\ SubSeq(d.params, 1, k) = c.params
                       /\ Len(d.params) = k + 2
                       /\ d.params[k + 1] = NumV(currentLimit)
                       /\ d.params[k + 2] = NumV((currentPage - 1) * currentLimit)
                       /\ currentPage = IF page.nan \/ page.n < 1 THEN 1 ELSE page.n
                       /\ currentPage >= 1
                       /\ d.params[k + 2].n >= 0
                       /\ request.query = ExampleQuery =>
                             /\ SubSeq(d.sql, 2, n) =
                                   <<Frag(SqlFrom, <<>>, <<>>), Frag(SqlQuality, <<1>>, <<>>),
                                     Frag(SqlSeries, <<>>, <<>>)>>
                             /\ d.params = <<StrV(<<"1", "0", "8", "0", "p">>), NumV(10), NumV(10)>>

\* C9 witness: the example request has issued both queries
C9_Witness ==
    /\ request.query = ExampleQuery
    /\ Kinds(queries) = <<"count", "data">>
    /\ pc = "done"

SqlTemplates == {SqlFrom, SqlOriginalId, SqlIdOrFilename, SqlFilename, SqlQuality, SqlMovies,
                 SqlSeries, SqlCount, SqlSelect, SqlOrderBy, SqlLimitOffset, SqlLimitOne}

RECURSIVE Placeholders(_)
Placeholders(sql) == IF sql = <<>> THEN <<>> ELSE Head(sql).ph \o Placeholders(Tail(sql))

\* the values a condition was given, from the request
ExpectedValues(f) ==
    LET t == trim(Param(request.query, "search", <<>>))
        like == StrV(<<"%">> \o normalizeSearchTextForComparison(t) \o <<"%">>)
    IN  CASE f.text = SqlOriginalId -> <<StrV(request.query["id"])>>
          [] f.text = SqlIdOrFilename -> <<NumV(DigitsValue(t)), like>>
          [] f.text = SqlFilename -> <<like>>
          [] f.text = SqlQuality -> <<StrV(request.query["quality"])>>
          [] f.text = SqlLimitOffset -> <<NumV(currentLimit), NumV(offset)>>
          [] OTHER -> <<>>

\* C10: in every query executed, the placeholders read $1, $2, ..., $n in
\* order, n is the number of values passed, each placeholder's value is the
\* one its condition was given, the count query carries no LIMIT/OFFSET
\* value, and the text is made of fixed templates with no value spliced in.
C10_PlaceholdersMatchParams ==
    \A i \in 1..Len(queries) :
        LET q == queries[i]
        IN  /\ Placeholders(q.sql) = [k \in 1..Len(q.params) |-> k]
            /\ \A j \in 1..Len(q.sql) :
                  /\ q.sql[j].text \in SqlTemplates
                  /\ q.sql[j].inline = <<>>
                  /\ [m \in 1..Len(q.sql[j].ph) |-> q.params[q.sql[j].ph[m]]]
                        = ExpectedValues(q.sql[j])
            /\ q.kind = "count" =>
                  /\ \A j \in 1..Len(q.sql) : q.sql[j].text # SqlLimitOffset
                  /\ q.params = SubSeq(queryParams, 1, Len(Placeholders(baseQuery)))

\* C10 witness: a data query with five values: search ($1, $2), quality ($3),
\* limit ($4), offset ($5)
C10_Witness ==
    /\ Len(queries) = 2
    /\ queries[2].kind = "data"
    /\ Len(queries[2].params) = 5
    /\ Len(queries[1].params) = 3

====
